---- MODULE Spec2Model ----
(***************************************************************************)
(* Model of the real-time synchronisation core of code-collab-backend:     *)
(* ConnectionManager (src/main.py 32-83) and websocket_endpoint            *)
(* (src/main.py 210-309) over the durable store of src/database.py.        *)
(*                                                                         *)
(* The program is an asyncio application: one task per websocket, one      *)
(* task on the event loop at a time, and a task gives the loop up only at  *)
(* an await.  `running` is the task that holds the loop; every action is   *)
(* the code one task executes from one await to the next.  A pc value      *)
(* names the await a task is suspended in (running = None) or, while the   *)
(* task holds the loop (running = the task), the statement it is at.       *)
(*                                                                         *)
(* What the environment does: a client may go away at any moment, which    *)
(* the program learns at its next send to or receive from that websocket   *)
(* (a send to a websocket whose client has gone always raises); a store    *)
(* call other than get_space may raise; a store call takes effect when it  *)
(* returns.  An inbox is the multiset of frames sent to a client so far.   *)
(***************************************************************************)
EXTENDS Integers, Sequences, FiniteSets, TLC

\* ------------------------------------------------------------------ bounds
PairMsgs == 2      \* Spec: inbound client messages over the whole run
PairDrops == 1     \* Spec: clients that close their end
PairFaults == 1    \* Spec: durable-store calls that raise
ClockMsgs == 3     \* SpecClock: inbound client messages
MaxClock == 5      \* SpecClock: last value of the wall clock
JoinDrops == 1     \* SpecJoin: clients that close their end
RoomMsgs == 1      \* SpecRoom: inbound client messages
RoomDrops == 1     \* SpecRoom: clients that close their end
StallMsgs == 2     \* SpecStall: inbound client messages
SnapMsgs == 2      \* SpecSnapshot: inbound client messages

\* --------------------------------------------------------------- constants
Throttle == 2      \* 0.5 s, the clock counting units of 0.25 s
StartClock == 2    \* time.time() at start: at least 0.5 s after the epoch
CloseNotFound == 4004

Conns == {"w1", "w2", "w3"}
Spaces == {"s1", "s2", "nope"}
Existing == {"s1", "s2"}
None == "None"

\* str(uuid.uuid4())[:8]: one fresh token per connection
UserIdOf == [w \in Conns |->
               CASE w = "w1" -> "u1" [] w = "w2" -> "u2" [] OTHER -> "u3"]

InitCode == ""
InitLang == "python"

\* What a client can put on the wire: the three recognised types, an
\* unrecognised type, an object without a type (message.get("type") is
\* None), and a frame json.loads cannot decode.
Inbound ==
    [type : {"code_change"}, val : {"x=1"}]
      \cup [type : {"language_change"}, val : {"js"}]
      \cup [type : {"cursor_move"}, val : {"pos"}]
      \cup [type : {"ping", None}, val : {"-"}]
      \cup [type : {"undecodable"}, val : {"-"}]

NoMsg == [type |-> None, val |-> "-"]
NoDoc == [code |-> None, language |-> None, active_users |-> {}]

VARIABLES
    pc,                  \* where each handler task is
    running,             \* the task that holds the event loop, or None
    space,               \* websocket_endpoint's space_id of each task
    snap,                \* websocket_endpoint's `space`: the get_space result
    alive,               \* the connection is open at both ends
    active_connections,  \* ConnectionManager.active_connections
    user_ids,            \* ConnectionManager.user_ids
    last_db_write,       \* ConnectionManager.last_db_write
    db,                  \* database.spaces, by space_id
    clock,               \* time.time()
    msg,                 \* the inbound message a task is handling
    now,                 \* the `now` a code_change branch captured
    bcMsg,               \* broadcast: message
    bcExclude,           \* broadcast: exclude
    bcOrig,              \* broadcast: the member set when the iteration began
    bcVisited,           \* broadcast: connections the iterator has yielded
    bcDead,              \* broadcast: dead_connections still to clean up
    bcRet,               \* broadcast: the call site to return to
    bcStale,             \* broadcast: the iterated set was emptied and dropped
    dying,               \* the connection whose remove_user_from_space is awaited
    inbox,               \* per open connection: how often each message was
                         \* sent to it
    closeCode,           \* close code sent by the handler, 0 if none
    dbCalls,             \* durable-store calls each task made
    codeWrites,          \* per space: the `now` of each update_space_code call
    latest,              \* per space: the text and language last received from a member
    stats,               \* per task: messages received, store calls, broadcasts
    msgsLeft,            \* inbound messages the clients may still send
    dropsLeft,           \* clients that may still close their end
    faultsLeft           \* durable-store calls that may still raise

vars == <<pc, running, space, snap, alive, active_connections, user_ids,
          last_db_write, db, clock, msg, now, bcMsg, bcExclude, bcOrig,
          bcVisited, bcDead, bcRet, bcStale, dying, inbox, closeCode, dbCalls,
          codeWrites, latest, stats, msgsLeft, dropsLeft, faultsLeft>>

\* ------------------------------------------------------------ pure helpers
\* an empty Python dict
EmptyDict == [k \in {} |-> None]

\* ConnectionManager.get_active_users, as a function of the dict it reads
GetActiveUsers(ac, s) ==
    IF s \notin DOMAIN ac THEN 0 ELSE Cardinality(ac[s])

\* ConnectionManager.connect, lines 40-42: create the member set if absent,
\* add the websocket
AddConn(ac, ws, s) ==
    [k \in DOMAIN ac \cup {s} |->
        IF k = s
          THEN (IF s \in DOMAIN ac THEN ac[s] ELSE {}) \cup {ws}
          ELSE ac[k]]

\* ConnectionManager.disconnect, lines 48-51: discard the websocket, delete
\* the entry once its set is empty
DiscardConn(ac, ws, s) ==
    IF s \notin DOMAIN ac
      THEN ac
      ELSE IF ac[s] \ {ws} = {}
             THEN [k \in DOMAIN ac \ {s} |-> ac[k]]
             ELSE [ac EXCEPT ![s] = ac[s] \ {ws}]

\* ConnectionManager.disconnect, line 53: user_ids.pop(websocket, None)
PopUser(ids, ws) == [k \in DOMAIN ids \ {ws} |-> ids[k]]

\* last_db_write.get(space_id, 0)
LastWrite(ldw, s) == IF s \in DOMAIN ldw THEN ldw[s] ELSE 0

\* the throttle test of line 257
WriteDue(t, last) == t - last >= Throttle

\* A variant of LanguageDue that puts the language write behind the
\* throttle test as well.
LanguageDueThrottled(t, last) == WriteDue(t, last)

\* lines 271-273: no test stands before update_space_language
LanguageDue(t, last) == TRUE

\* A variant of NotFound that admits every space identifier.
NotFoundNever(doc) == FALSE

\* line 215: `if not space`
NotFound(doc) == doc = NoDoc


\* one more copy of message m in the bag b
Put(b, m) ==
    [k \in DOMAIN b \cup {m} |->
        IF k = m THEN (IF m \in DOMAIN b THEN b[m] + 1 ELSE 1) ELSE b[k]]

Message(type, from, val) == [type |-> type, from |-> from, val |-> val]
NoBroadcast == Message(None, None, "-")

\* What a task has done so far: init sent; code_change and language_change
\* frames received, their store calls and their broadcast calls; disconnect
\* calls that found the websocket already removed; user_leave broadcasts;
\* frames of no recognised type.
NoStats == [init |-> 0, codeRecv |-> 0, codeBc |-> 0, langRecv |-> 0,
            langUpd |-> 0, langBc |-> 0, again |-> 0, leaveBc |-> 0,
            skipped |-> 0]

\* the order connections arrive in names them
Before(d, c) ==
    \/ d = "w1" /\ c \in {"w2", "w3"}
    \/ d = "w2" /\ c = "w3"

registry == <<active_connections, user_ids, last_db_write>>
bcVars == <<bcMsg, bcExclude, bcOrig, bcVisited, bcDead, bcRet>>
history == <<closeCode, dbCalls, codeWrites, latest, stats>>
budgets == <<msgsLeft, dropsLeft, faultsLeft>>

\* ------------------------------------------------------------- scheduling
Turn(c) == running \in {None, c}
Suspend(c, p) == pc' = [pc EXCEPT ![c] = p] /\ running' = None
Continue(c, p) == pc' = [pc EXCEPT ![c] = p] /\ running' = c

\* A durable-store call returns (ok) or raises.
StoreAnswers(ok) ==
    IF ok THEN faultsLeft' = faultsLeft
          ELSE faultsLeft > 0 /\ faultsLeft' = faultsLeft - 1

\* What a task finds when it uses the transport of connection x: the
\* connection open (up), or closed.  The server closes a connection when its
\* handler returns; a client may close its end at any moment, and the close
\* shows only here, at the next use.
Link(x, up) ==
    IF up
      THEN /\ alive[x]
           /\ UNCHANGED <<alive, dropsLeft>>
      ELSE IF alive[x]
             THEN /\ dropsLeft > 0
                  /\ dropsLeft' = dropsLeft - 1
                  /\ alive' = [alive EXCEPT ![x] = FALSE]
             ELSE UNCHANGED <<alive, dropsLeft>>

Called(c, name) == dbCalls' = [dbCalls EXCEPT ![c] = @ \cup {name}]
Bump(c, field) == stats' = [stats EXCEPT ![c][field] = @ + 1]

\* The iterators that walk the member set of space s lose their set when
\* disconnect deletes the entry: the set object stays empty from then on.
StaleAfter(ac, s) ==
    [c \in Conns |->
        bcStale[c] \/ (pc[c] \in {"bc", "bc_wait"} /\ space[c] = s
                          /\ s \notin DOMAIN ac)]

\* -------------------------------------------------------------------- Init
Start(msgs, drops, faults) ==
    /\ pc = [c \in Conns |-> "idle"]
    /\ running = None
    /\ space = [c \in Conns |-> None]
    /\ snap = [c \in Conns |-> NoDoc]
    /\ alive = [c \in Conns |-> FALSE]
    /\ active_connections = EmptyDict
    /\ user_ids = EmptyDict
    /\ last_db_write = EmptyDict
    /\ db = [s \in Spaces |->
               IF s \in Existing
                 THEN [code |-> InitCode, language |-> InitLang,
                       active_users |-> {}]
                 ELSE NoDoc]
    /\ clock = StartClock
    /\ msg = [c \in Conns |-> NoMsg]
    /\ now = [c \in Conns |-> 0]
    /\ bcMsg = [c \in Conns |-> NoBroadcast]
    /\ bcExclude = [c \in Conns |-> None]
    /\ bcOrig = [c \in Conns |-> {}]
    /\ bcVisited = [c \in Conns |-> {}]
    /\ bcDead = [c \in Conns |-> {}]
    /\ bcRet = [c \in Conns |-> None]
    /\ bcStale = [c \in Conns |-> FALSE]
    /\ dying = [c \in Conns |-> None]
    /\ inbox = [c \in Conns |-> EmptyDict]
    /\ closeCode = [c \in Conns |-> 0]
    /\ dbCalls = [c \in Conns |-> {}]
    /\ codeWrites = [s \in Spaces |-> <<>>]
    /\ latest = [s \in Spaces |-> [code |-> InitCode, language |-> InitLang]]
    /\ stats = [c \in Conns |-> NoStats]
    /\ msgsLeft = msgs
    /\ dropsLeft = drops
    /\ faultsLeft = faults

Init == Start(PairMsgs, PairDrops, PairFaults)
InitClock == Start(ClockMsgs, 0, 0)
InitJoin == Start(0, JoinDrops, 0)
InitRoom == Start(RoomMsgs, RoomDrops, 0)
InitStall == Start(StallMsgs, 0, 0)
InitSnapshot == Start(SnapMsgs, 0, 0)

\* ------------------------------------------------ websocket_endpoint: join
\* Lines 211-222: a client opens /ws/{space_id} and get_space returns.  No
\* document: close(4004) is called.  Otherwise manager.connect is entered
\* and awaits websocket.accept().
Open(c, s) ==
    /\ running = None
    /\ pc[c] = "idle"
    /\ \A d \in Conns : Before(d, c) => pc[d] # "idle"
    /\ space' = [space EXCEPT ![c] = s]
    /\ alive' = [alive EXCEPT ![c] = TRUE]
    /\ Called(c, "get_space")
    /\ IF NotFound(db[s])
         THEN /\ Suspend(c, "closing")
              /\ snap' = snap
         ELSE /\ Suspend(c, "accept")
              /\ snap' = [snap EXCEPT ![c] = db[s]]
    /\ UNCHANGED <<registry, db, clock, msg, now, bcVars, bcStale, dying,
                   inbox, closeCode, codeWrites, latest, stats, budgets>>

\* Lines 216-217: the close frame is sent and the handler returns.
Close4004(c) ==
    /\ Turn(c)
    /\ pc[c] = "closing"
    /\ closeCode' = [closeCode EXCEPT ![c] = CloseNotFound]
    /\ Continue(c, "exit")
    /\ UNCHANGED <<space, snap, alive, registry, db, clock, msg, now, bcVars,
                   bcStale, dying, inbox, dbCalls, codeWrites, latest, stats, budgets>>

\* connect, lines 39-44: accept returns, the websocket is registered, and
\* add_user_to_space is awaited.  accept raises when the client has gone:
\* connect is called outside the try, so the handler ends there.
Accept(c, up) ==
    /\ Turn(c)
    /\ pc[c] = "accept"
    /\ Link(c, up)
    /\ IF up
         THEN /\ active_connections' = AddConn(active_connections, c, space[c])
              /\ user_ids' = [k \in DOMAIN user_ids \cup {c} |->
                                IF k = c THEN UserIdOf[c] ELSE user_ids[k]]
              /\ Called(c, "add_user_to_space")
              /\ Suspend(c, "add_user")
         ELSE /\ Continue(c, "exit")
              /\ UNCHANGED <<active_connections, user_ids, dbCalls>>
    /\ UNCHANGED <<space, snap, last_db_write, db, clock, msg, now, bcVars,
                   bcStale, dying, inbox, closeCode, codeWrites, latest, stats,
                   msgsLeft, faultsLeft>>

\* The exception of a failed send: starlette raises WebSocketDisconnect or
\* lets the transport's own exception through, by version and transport.
SendErrors == {"exc_wsd", "exc_other"}

\* connect, line 44, then lines 224-233: add_user_to_space returns, connect
\* returns, the try is entered and init is sent (active_users is read
\* here).  A store failure propagates out of the handler: line 222 is not
\* inside the try.
AddUser(c, ok, up, err) ==
    /\ Turn(c)
    /\ pc[c] = "add_user"
    /\ StoreAnswers(ok)
    /\ IF ok
         THEN /\ db' = [db EXCEPT ![space[c]].active_users = @ \cup {UserIdOf[c]}]
              /\ Link(c, up)
              /\ IF up
                   THEN /\ inbox' = [inbox EXCEPT ![c] = Put(@,
                               [type |-> "init", from |-> UserIdOf[c],
                                val |-> GetActiveUsers(active_connections, space[c]),
                                code |-> snap[c].code,
                                language |-> snap[c].language])]
                        /\ Bump(c, "init")
                        /\ Suspend(c, "init_sent")
                   ELSE /\ Continue(c, err)
                        /\ inbox' = [inbox EXCEPT ![c] = EmptyDict]
                        /\ stats' = stats
         ELSE /\ Continue(c, "exit")
              /\ UNCHANGED <<db, inbox, alive, dropsLeft, stats>>
    /\ UNCHANGED <<space, snap, registry, clock, msg, now, bcVars, bcStale,
                   dying, closeCode, dbCalls, codeWrites, latest, msgsLeft>>

\* Lines 236-244: send_json returns; user_join is broadcast to the others.
JoinBroadcast(c) ==
    /\ Turn(c)
    /\ pc[c] = "init_sent"
    /\ bcMsg' = [bcMsg EXCEPT ![c] = Message("user_join", UserIdOf[c],
                    GetActiveUsers(active_connections, space[c]))]
    /\ bcExclude' = [bcExclude EXCEPT ![c] = c]
    /\ bcRet' = [bcRet EXCEPT ![c] = "recv"]
    /\ snap' = [snap EXCEPT ![c] = NoDoc]
    /\ Continue(c, "bc_start")
    /\ UNCHANGED <<space, alive, registry, db, clock, msg, now, bcOrig,
                   bcVisited, bcDead, bcStale, dying, inbox, history, budgets>>

\* --------------------------------------------- ConnectionManager.broadcast
\* Where an exception that leaves broadcast lands: a call made inside the
\* try (the join and the message loop) is caught by `except Exception`; the
\* user_leave call is made inside an except clause, so the handler ends.
RaiseFromBroadcast(c) ==
    IF bcRet[c] = "recv" THEN Continue(c, "exc_other") ELSE Continue(c, "exit")

\* broadcast returns to its call site: the message loop's receive_text, or
\* the end of the `except WebSocketDisconnect` clause.  Its locals and the
\* loop's `message` go out of use.
ReturnFromBroadcast(c) ==
    /\ IF bcRet[c] = "recv" THEN Suspend(c, "recv") ELSE Continue(c, "exit")
    /\ bcMsg' = [bcMsg EXCEPT ![c] = NoBroadcast]
    /\ bcExclude' = [bcExclude EXCEPT ![c] = None]
    /\ bcOrig' = [bcOrig EXCEPT ![c] = {}]
    /\ bcVisited' = [bcVisited EXCEPT ![c] = {}]
    /\ bcDead' = [bcDead EXCEPT ![c] = {}]
    /\ bcRet' = [bcRet EXCEPT ![c] = None]
    /\ bcStale' = [bcStale EXCEPT ![c] = FALSE]
    /\ msg' = [msg EXCEPT ![c] = NoMsg]
    /\ now' = [now EXCEPT ![c] = 0]

\* Lines 60-66: nothing to do for an unknown space; otherwise the for
\* statement takes an iterator over the member set itself.
BroadcastStart(c) ==
    /\ Turn(c)
    /\ pc[c] = "bc_start"
    /\ IF space[c] \notin DOMAIN active_connections
         THEN ReturnFromBroadcast(c)
         ELSE /\ bcOrig' = [bcOrig EXCEPT ![c] = active_connections[space[c]]]
              /\ Continue(c, "bc")
              /\ UNCHANGED <<bcMsg, bcExclude, bcVisited, bcDead, bcRet,
                             bcStale, msg, now>>
    /\ UNCHANGED <<space, snap, alive, registry, db, clock, dying, inbox,
                   history, budgets>>

\* The set object the iterator of task c walks, as it is now.
IterSet(c) ==
    IF bcStale[c] \/ space[c] \notin DOMAIN active_connections
      THEN {}
      ELSE active_connections[space[c]]

\* What next() on the set iterator does: RuntimeError ("Set changed size
\* during iteration") when the size differs from the size at creation;
\* otherwise an entry not yet passed, or the end.  In a set of the original
\* size but other members, an added member may lie behind the position.
IterChangedSize(c) == Cardinality(IterSet(c)) # Cardinality(bcOrig[c])
IterRest(c) == IterSet(c) \ bcVisited[c]
IterMayEnd(c) == IterRest(c) = {} \/ IterSet(c) # bcOrig[c]

\* Lines 66-73, one turn of the loop: resume from the previous send_text,
\* take the next connection, skip the excluded one, call send_text.
BroadcastNext(c, up) ==
    /\ Turn(c)
    /\ pc[c] = "bc"
    /\ IF IterChangedSize(c)
         THEN /\ up
              /\ RaiseFromBroadcast(c)
              /\ UNCHANGED <<bcVisited, bcDead, bcStale, inbox, alive,
                             dropsLeft>>
         ELSE \E x \in IterRest(c) \cup {None} :
                IF x = None
                  THEN /\ up
                       /\ IterMayEnd(c)
                       /\ Continue(c, "bc_clean")
                       /\ UNCHANGED <<bcVisited, bcDead, bcStale, inbox, alive,
                                      dropsLeft>>
                  ELSE /\ bcVisited' = [bcVisited EXCEPT ![c] = @ \cup {x}]
                       /\ bcStale' = bcStale
                       /\ IF x = bcExclude[c]
                            THEN /\ up
                                 /\ Continue(c, "bc")
                                 /\ UNCHANGED <<bcDead, inbox, alive,
                                                dropsLeft>>
                            ELSE /\ Suspend(c, "bc")
                                 /\ Link(x, up)
                                 /\ IF up
                                      THEN /\ inbox' = [inbox EXCEPT ![x] = Put(@, bcMsg[c])]
                                           /\ bcDead' = bcDead
                                      ELSE /\ bcDead' = [bcDead EXCEPT ![c] =
                                                           @ \cup {x}]
                                           /\ inbox' = [inbox EXCEPT ![x] = EmptyDict]
    /\ UNCHANGED <<space, snap, registry, db, clock, msg, now, bcMsg,
                   bcExclude, bcOrig, bcRet, dying, history, msgsLeft,
                   faultsLeft>>

\* Line 70 when the client of the next connection has stopped reading and
\* the transport's write buffer is full: send_text is awaited with no
\* timeout, so the task waits there until the client reads again or goes
\* away; as long as it does neither, no step of the task is enabled.
BroadcastStall(c) ==
    /\ Turn(c)
    /\ pc[c] = "bc"
    /\ ~IterChangedSize(c)
    /\ \E x \in IterRest(c) \ {bcExclude[c]} :
          /\ alive[x]
          /\ bcVisited' = [bcVisited EXCEPT ![c] = @ \cup {x}]
    /\ Suspend(c, "bc_wait")
    /\ UNCHANGED <<space, snap, alive, registry, db, clock, msg, now, bcMsg,
                   bcExclude, bcOrig, bcDead, bcRet, bcStale, dying, inbox,
                   history, budgets>>

\* Lines 75-77 with disconnect, lines 48-55: the next dead connection is
\* dropped from the registry; remove_user_from_space is awaited when it
\* still had a user id.  With no dead connection left broadcast returns.
BroadcastCleanup(c) ==
    /\ Turn(c)
    /\ pc[c] = "bc_clean"
    /\ IF bcDead[c] = {}
         THEN /\ ReturnFromBroadcast(c)
              /\ UNCHANGED <<active_connections, user_ids, dying, dbCalls>>
         ELSE \E d \in bcDead[c] :
                /\ bcDead' = [bcDead EXCEPT ![c] = @ \ {d}]
                /\ active_connections' =
                       DiscardConn(active_connections, d, space[c])
                /\ user_ids' = PopUser(user_ids, d)
                /\ bcStale' = StaleAfter(active_connections', space[c])
                /\ IF d \in DOMAIN user_ids
                     THEN /\ dying' = [dying EXCEPT ![c] = d]
                          /\ Called(c, "remove_user_from_space")
                          /\ Suspend(c, "bc_rm")
                     ELSE /\ Continue(c, "bc_clean")
                          /\ UNCHANGED <<dying, dbCalls>>
                /\ UNCHANGED <<bcMsg, bcExclude, bcOrig, bcVisited, bcRet,
                               msg, now>>
    /\ UNCHANGED <<space, snap, alive, last_db_write, db, clock, inbox,
                   closeCode, codeWrites, latest, stats, budgets>>

\* disconnect, line 55, inside broadcast: remove_user_from_space returns, or
\* raises and the exception leaves broadcast.
BroadcastRemoved(c, ok) ==
    /\ Turn(c)
    /\ pc[c] = "bc_rm"
    /\ StoreAnswers(ok)
    /\ IF ok
         THEN /\ db' = [db EXCEPT ![space[c]].active_users =
                                      @ \ {UserIdOf[dying[c]]}]
              /\ dying' = [dying EXCEPT ![c] = None]
              /\ Continue(c, "bc_clean")
         ELSE /\ db' = db
              /\ dying' = dying
              /\ RaiseFromBroadcast(c)
    /\ UNCHANGED <<space, snap, alive, registry, clock, msg, now, bcVars,
                   bcStale, inbox, history, msgsLeft, dropsLeft>>

\* A variant of CallBroadcast that hands the broadcast to a task of its own
\* and does not await it: the handler goes back to receive_text at once.
CallBroadcastDetached(c, m) ==
    /\ bcMsg' = [bcMsg EXCEPT ![c] = Message(m.type, UserIdOf[c], m.val)]
    /\ bcExclude' = [bcExclude EXCEPT ![c] = c]
    /\ bcRet' = [bcRet EXCEPT ![c] = "recv"]
    /\ Suspend(c, "recv")

\* -------------------------------------- websocket_endpoint: the message loop
\* Lines 261-269, 275-283, 286-294: the broadcast call of a branch
CallBroadcast(c, m) ==
    /\ bcMsg' = [bcMsg EXCEPT ![c] = Message(m.type, UserIdOf[c], m.val)]
    /\ bcExclude' = [bcExclude EXCEPT ![c] = c]
    /\ bcRet' = [bcRet EXCEPT ![c] = "recv"]
    /\ Continue(c, "bc_start")

\* A variant of FallThrough that treats a frame of no recognised type as
\* an error.
FallThroughRaises(c) == Continue(c, "exc_other")

\* Lines 253-294: the if/elif chain has no else; a frame of another type
\* leaves it and the loop awaits the next receive_text.
FallThrough(c) == Suspend(c, "recv")

\* Lines 248-294: receive_text returns a frame.  json.loads raises on an
\* undecodable one.  code_change reads the clock and the last write time and
\* either calls update_space_code or goes straight to its broadcast;
\* language_change calls update_space_language; cursor_move broadcasts; any
\* other type falls through to the next receive_text.
Receive(c, m, t) ==
    /\ running = None
    /\ pc[c] = "recv"
    /\ alive[c]
    /\ msgsLeft > 0
    /\ msgsLeft' = msgsLeft - 1
    /\ clock' = t
    /\ CASE m.type = "undecodable" ->
              /\ Continue(c, "exc_other")
              /\ UNCHANGED <<msg, now, bcMsg, bcExclude, bcRet, dbCalls,
                             codeWrites, latest, stats>>
         [] m.type = "code_change" ->
              /\ msg' = [msg EXCEPT ![c] = m]
              /\ IF WriteDue(t, LastWrite(last_db_write, space[c]))
                   THEN /\ now' = [now EXCEPT ![c] = t]
                        /\ Called(c, "update_space_code")
                        /\ codeWrites' = [codeWrites EXCEPT ![space[c]] =
                                            Append(@, t)]
                        /\ Bump(c, "codeRecv")
                        /\ Suspend(c, "upd_code")
                        /\ UNCHANGED <<bcMsg, bcExclude, bcRet>>
                   ELSE /\ CallBroadcast(c, m)
                        /\ stats' = [stats EXCEPT ![c].codeRecv = @ + 1,
                                                  ![c].codeBc = @ + 1]
                        /\ UNCHANGED <<now, dbCalls, codeWrites>>
              /\ latest' = [latest EXCEPT ![space[c]].code = m.val]
         [] m.type = "language_change" ->
              /\ msg' = [msg EXCEPT ![c] = m]
              /\ IF LanguageDue(t, LastWrite(last_db_write, space[c]))
                   THEN /\ Called(c, "update_space_language")
                        /\ stats' = [stats EXCEPT ![c].langRecv = @ + 1,
                                                  ![c].langUpd = @ + 1]
                        /\ Suspend(c, "upd_lang")
                        /\ UNCHANGED <<bcMsg, bcExclude, bcRet>>
                   ELSE /\ CallBroadcast(c, m)
                        /\ stats' = [stats EXCEPT ![c].langRecv = @ + 1,
                                                  ![c].langBc = @ + 1]
                        /\ dbCalls' = dbCalls
              /\ latest' = [latest EXCEPT ![space[c]].language = m.val]
              /\ UNCHANGED <<now, codeWrites>>
         [] m.type = "cursor_move" ->
              /\ msg' = [msg EXCEPT ![c] = m]
              /\ CallBroadcast(c, m)
              /\ UNCHANGED <<now, dbCalls, codeWrites, latest, stats>>
         [] OTHER ->
              /\ FallThrough(c)
              /\ Bump(c, "skipped")
              /\ UNCHANGED <<msg, now, bcMsg, bcExclude, bcRet, dbCalls,
                             codeWrites, latest>>
    /\ UNCHANGED <<space, snap, alive, registry, db, bcOrig, bcVisited,
                   bcDead, bcStale, dying, inbox, closeCode, dropsLeft,
                   faultsLeft>>

\* Line 248: receive_text raises WebSocketDisconnect once the client's end
\* has closed.
ReceiveClosed(c) ==
    /\ running = None
    /\ pc[c] = "recv"
    /\ Link(c, FALSE)
    /\ inbox' = [inbox EXCEPT ![c] = EmptyDict]
    /\ Continue(c, "exc_wsd")
    /\ UNCHANGED <<space, snap, registry, db, clock, msg, now, bcVars,
                   bcStale, dying, history, msgsLeft, faultsLeft>>

\* Lines 258-269: update_space_code returns, the captured `now` becomes the
\* space's last write time, and the change is broadcast.  When the store
\* raises, `except Exception` takes over.
CodeWritten(c, ok) ==
    /\ Turn(c)
    /\ pc[c] = "upd_code"
    /\ StoreAnswers(ok)
    /\ IF ok
         THEN /\ db' = [db EXCEPT ![space[c]].code = msg[c].val]
              /\ last_db_write' =
                     [k \in DOMAIN last_db_write \cup {space[c]} |->
                        IF k = space[c] THEN now[c] ELSE last_db_write[k]]
              /\ CallBroadcast(c, msg[c])
              /\ Bump(c, "codeBc")
         ELSE /\ Continue(c, "exc_other")
              /\ UNCHANGED <<db, last_db_write, bcMsg, bcExclude, bcRet,
                             stats>>
    /\ UNCHANGED <<space, snap, alive, active_connections, user_ids, clock,
                   msg, now, bcOrig, bcVisited, bcDead, bcStale, dying, inbox,
                   closeCode, dbCalls, codeWrites, latest, msgsLeft, dropsLeft>>

\* Lines 273-283: update_space_language returns and the change is broadcast.
LanguageWritten(c, ok) ==
    /\ Turn(c)
    /\ pc[c] = "upd_lang"
    /\ StoreAnswers(ok)
    /\ IF ok
         THEN /\ db' = [db EXCEPT ![space[c]].language = msg[c].val]
              /\ CallBroadcast(c, msg[c])
              /\ Bump(c, "langBc")
         ELSE /\ Continue(c, "exc_other")
              /\ UNCHANGED <<db, bcMsg, bcExclude, bcRet, stats>>
    /\ UNCHANGED <<space, snap, alive, registry, clock, msg, now, bcOrig,
                   bcVisited, bcDead, bcStale, dying, inbox, closeCode,
                   dbCalls, codeWrites, latest, msgsLeft, dropsLeft>>

\* ------------------------------------ websocket_endpoint: the except clauses
\* Lines 296-297 with disconnect, lines 48-55: `except WebSocketDisconnect`
\* drops the websocket from the registry and awaits remove_user_from_space
\* when it still had a user id; otherwise it goes on to the user_leave call.
HandleDisconnect(c) ==
    /\ Turn(c)
    /\ pc[c] = "exc_wsd"
    /\ active_connections' = DiscardConn(active_connections, c, space[c])
    /\ user_ids' = PopUser(user_ids, c)
    /\ bcStale' = StaleAfter(active_connections', space[c])
    /\ IF c \in DOMAIN user_ids
         THEN /\ Called(c, "remove_user_from_space")
              /\ Suspend(c, "rm_wsd")
              /\ stats' = stats
         ELSE /\ Continue(c, "leave")
              /\ Bump(c, "again")
              /\ dbCalls' = dbCalls
    /\ UNCHANGED <<space, snap, alive, last_db_write, db, clock, msg, now,
                   bcVars, dying, inbox, closeCode, codeWrites, latest, budgets>>

\* disconnect, line 55, in `except WebSocketDisconnect`: the store call
\* returns; when it raises, the exception leaves the handler.
LeaveRemoved(c, ok) ==
    /\ Turn(c)
    /\ pc[c] = "rm_wsd"
    /\ StoreAnswers(ok)
    /\ IF ok
         THEN /\ db' = [db EXCEPT ![space[c]].active_users = @ \ {UserIdOf[c]}]
              /\ Continue(c, "leave")
         ELSE /\ db' = db
              /\ Continue(c, "exit")
    /\ UNCHANGED <<space, snap, alive, registry, clock, msg, now, bcVars,
                   bcStale, dying, inbox, history, msgsLeft, dropsLeft>>

\* Lines 299-306: user_leave, with the count as it is now, is broadcast to
\* everybody (no exclude).
LeaveBroadcast(c) ==
    /\ Turn(c)
    /\ pc[c] = "leave"
    /\ bcMsg' = [bcMsg EXCEPT ![c] = Message("user_leave", UserIdOf[c],
                    GetActiveUsers(active_connections, space[c]))]
    /\ bcExclude' = [bcExclude EXCEPT ![c] = None]
    /\ bcRet' = [bcRet EXCEPT ![c] = "done"]
    /\ bcOrig' = [bcOrig EXCEPT ![c] = {}]
    /\ bcVisited' = [bcVisited EXCEPT ![c] = {}]
    /\ bcDead' = [bcDead EXCEPT ![c] = {}]
    /\ Bump(c, "leaveBc")
    /\ Continue(c, "bc_start")
    /\ UNCHANGED <<space, snap, alive, registry, db, clock, msg, now, bcStale,
                   dying, inbox, closeCode, dbCalls, codeWrites, latest, budgets>>

\* Lines 307-309 with disconnect, lines 48-55: `except Exception` drops the
\* websocket from the registry and broadcasts nothing.
HandleException(c) ==
    /\ Turn(c)
    /\ pc[c] = "exc_other"
    /\ active_connections' = DiscardConn(active_connections, c, space[c])
    /\ user_ids' = PopUser(user_ids, c)
    /\ bcStale' = StaleAfter(active_connections', space[c])
    /\ IF c \in DOMAIN user_ids
         THEN /\ Called(c, "remove_user_from_space")
              /\ Suspend(c, "rm_exc")
              /\ stats' = stats
         ELSE /\ Continue(c, "exit")
              /\ Bump(c, "again")
              /\ dbCalls' = dbCalls
    /\ UNCHANGED <<space, snap, alive, last_db_write, db, clock, msg, now,
                   bcVars, dying, inbox, closeCode, codeWrites, latest, budgets>>

\* disconnect, line 55, in `except Exception`: the store call returns or
\* raises; either way the handler ends.
ExceptionRemoved(c, ok) ==
    /\ Turn(c)
    /\ pc[c] = "rm_exc"
    /\ StoreAnswers(ok)
    /\ db' = IF ok
               THEN [db EXCEPT ![space[c]].active_users = @ \ {UserIdOf[c]}]
               ELSE db
    /\ Continue(c, "exit")
    /\ UNCHANGED <<space, snap, alive, registry, clock, msg, now, bcVars,
                   bcStale, dying, inbox, history, msgsLeft, dropsLeft>>

\* The handler task ends: its locals are gone and the server closes the
\* websocket.
Exit(c) ==
    /\ Turn(c)
    /\ pc[c] = "exit"
    /\ Suspend(c, "done")
    /\ alive' = [alive EXCEPT ![c] = FALSE]
    /\ inbox' = [inbox EXCEPT ![c] = EmptyDict]
    /\ snap' = [snap EXCEPT ![c] = NoDoc]
    /\ msg' = [msg EXCEPT ![c] = NoMsg]
    /\ now' = [now EXCEPT ![c] = 0]
    /\ bcMsg' = [bcMsg EXCEPT ![c] = NoBroadcast]
    /\ bcExclude' = [bcExclude EXCEPT ![c] = None]
    /\ bcOrig' = [bcOrig EXCEPT ![c] = {}]
    /\ bcVisited' = [bcVisited EXCEPT ![c] = {}]
    /\ bcDead' = [bcDead EXCEPT ![c] = {}]
    /\ bcRet' = [bcRet EXCEPT ![c] = None]
    /\ bcStale' = [bcStale EXCEPT ![c] = FALSE]
    /\ dying' = [dying EXCEPT ![c] = None]
    /\ stats' = [stats EXCEPT ![c] = NoStats]
    /\ UNCHANGED <<space, registry, db, clock, closeCode, dbCalls, codeWrites, latest,
                   budgets>>

\* ----------------------------------------------------------- specification
\* The steps of the handler task of connection c
\* The steps of one handler task, grouped by the part of the code they
\* belong to.
Joining(c) ==
    \/ \E up \in BOOLEAN : Accept(c, up)
    \/ \E ok \in BOOLEAN, up \in BOOLEAN, err \in SendErrors :
          AddUser(c, ok, up, err)
    \/ JoinBroadcast(c)

Fanout(c) ==
    \/ BroadcastStart(c)
    \/ \E up \in BOOLEAN : BroadcastNext(c, up)
    \/ BroadcastCleanup(c)

Persist(c) ==
    \/ \E ok \in BOOLEAN : CodeWritten(c, ok)
    \/ \E ok \in BOOLEAN : LanguageWritten(c, ok)

Leaving(c) ==
    \/ \E ok \in BOOLEAN : BroadcastRemoved(c, ok)
    \/ ReceiveClosed(c)
    \/ HandleDisconnect(c)
    \/ \E ok \in BOOLEAN : LeaveRemoved(c, ok)
    \/ LeaveBroadcast(c)
    \/ HandleException(c)
    \/ \E ok \in BOOLEAN : ExceptionRemoved(c, ok)
    \/ Exit(c)

Handler(c) == Close4004(c) \/ Joining(c) \/ Fanout(c) \/ Persist(c) \/ Leaving(c)

\* Spec: two connections, the second one to any space, with store
\* failures, clients that go away, and a clock that stands still.
PairConns == {"w1", "w2"}
PairTargets == [w \in PairConns |-> IF w = "w1" THEN {"s1"} ELSE Spaces]

Next ==
    \/ \E c \in PairConns : \E s \in PairTargets[c] : Open(c, s)
    \/ \E c \in PairConns : Handler(c)
    \/ \E c \in PairConns, m \in Inbound : Receive(c, m, clock)

Spec == Init /\ [][Next]_vars

\* SpecClock: two connections in one space that send code and language
\* changes while the clock runs.  The store answers and no client goes
\* away, so the steps of Leaving are never enabled and are left out.
Edits == {m \in Inbound : m.type \in {"code_change", "language_change"}}

NextClock ==
    \/ \E c \in PairConns : Open(c, "s1")
    \/ \E c \in PairConns : Joining(c) \/ Fanout(c) \/ Persist(c)
    \/ \E c \in PairConns, m \in Edits, t \in clock..MaxClock : Receive(c, m, t)

SpecClock == InitClock /\ [][NextClock]_vars

\* SpecJoin: three connections; the second and the third arrive together
\* once the first has joined.  No inbound messages, so the steps of
\* Persist are never enabled and are left out.
FirstJoined == pc["w1"] \notin {"idle", "accept", "add_user", "init_sent", "bc"}
JoinTargets == [w \in Conns |-> IF w = "w2" THEN {"s1", "s2"} ELSE {"s1"}]

NextJoin ==
    \/ \E c \in Conns : \E s \in JoinTargets[c] :
          (c # "w1" => FirstJoined) /\ Open(c, s)
    \/ \E c \in Conns : Joining(c) \/ Fanout(c) \/ Leaving(c)

SpecJoin == InitJoin /\ [][NextJoin]_vars

\* SpecRoom: three connections join space s1 one after the other; then
\* cursor moves and frames that are not JSON arrive and clients go away.
\* Nothing is persisted.
AllJoined(c) == \A d \in Conns : Before(d, c) => pc[d] = "recv"
Moves == {m \in Inbound : m.type \in {"cursor_move", "undecodable"}}

NextRoom ==
    \/ \E c \in Conns : AllJoined(c) /\ Open(c, "s1")
    \/ \E c \in Conns : Joining(c) \/ Fanout(c) \/ Leaving(c)
    \/ \E c \in Conns, m \in Moves : Receive(c, m, clock)

SpecRoom == InitRoom /\ [][NextRoom]_vars

\* SpecSnapshot: two connections join space s1 at any time while members send
\* code changes of two different texts and language changes, at times that
\* may or may not be a throttle interval apart.  Nobody goes away and the
\* store answers.
Texts == [type : {"code_change"}, val : {"x=1", "x=2"}]
           \cup {m \in Inbound : m.type = "language_change"}

NextSnapshot ==
    \/ \E c \in PairConns : Open(c, "s1")
    \/ \E c \in PairConns : Joining(c) \/ Fanout(c) \/ Persist(c)
    \/ \E c \in PairConns, m \in Texts, t \in clock..MaxClock : Receive(c, m, t)

SpecSnapshot == InitSnapshot /\ [][NextSnapshot]_vars

\* SpecStall: three connections join space s1 one after the other; then
\* cursor moves arrive, and a member's client may stop reading.  Nobody
\* goes away and the store answers.  The event loop runs every task that
\* is ready, so a step that stays enabled is taken.
Cursor == {m \in Inbound : m.type = "cursor_move"}
Settled == \A d \in Conns : pc[d] \notin {"idle", "accept", "add_user", "init_sent"}

NextStall ==
    \/ \E c \in Conns : AllJoined(c) /\ Open(c, "s1")
    \/ \E c \in Conns : Joining(c) \/ Fanout(c)
    \/ \E c \in Conns : Settled /\ BroadcastStall(c)
    \/ \E c \in Conns, m \in Cursor : Settled /\ Receive(c, m, clock)

SpecStall == InitStall /\ [][NextStall]_vars /\ WF_vars(NextStall)

\* ------------------------------------------------------------------
\* Claims
\* ------------------------------------------------------------------

Members(s) == IF s \in DOMAIN active_connections THEN active_connections[s] ELSE {}
ConnOf(u) == CHOOSE c \in Conns : UserIdOf[c] = u
Relayed == {"code_change", "language_change", "cursor_move"}
PassOver == {"bc_clean", "bc_rm", "exc_other", "rm_exc"}

\* C1 (parts): a relayed message is never found in its sender's inbox, nor
\* in the inbox of a connection of another space.
C1_NoEchoNoCross ==
    \A x \in Conns : \A m \in DOMAIN inbox[x] :
        m.type \in Relayed =>
            /\ m.from # UserIdOf[x]
            /\ space[ConnOf(m.from)] = space[x]

\* C1: when the pass over the members that relays a message of connection c
\* is over, the message is in the inbox of every other connection that was
\* a member when the pass began, still is one and is still open; and no
\* relayed message is in its sender's inbox or in another space's.
C1_RelayedToOthers ==
    /\ C1_NoEchoNoCross
    /\ \A c \in Conns :
          (bcMsg[c].type \in Relayed /\ pc[c] \in PassOver) =>
              \A x \in bcOrig[c] \ {c} :
                  (x \in Members(space[c]) /\ alive[x]) =>
                      bcMsg[c] \in DOMAIN inbox[x]

\* C2: in every reachable state the count get_active_users reports for a
\* space is the number of its open, admitted connections: every connection
\* it counts belongs to that space and has a handler task that has not
\* ended, and every open connection waiting in its message loop is counted.
C2_ActiveUsersExact ==
    \A s \in Spaces :
        /\ GetActiveUsers(active_connections, s) = Cardinality(Members(s))
        /\ \A c \in Members(s) : space[c] = s /\ pc[c] # "done"
        /\ \A c \in Conns :
              (space[c] = s /\ pc[c] = "recv" /\ alive[c]) => c \in Members(s)

\* C3: of the update_space_code calls made for one space, no two were
\* decided on arrival times less than the throttle window apart.
C3_OneWritePerWindow ==
    \A s \in Spaces : \A i \in DOMAIN codeWrites[s] : \A j \in DOMAIN codeWrites[s] :
        i < j => codeWrites[s][j] - codeWrites[s][i] >= Throttle

\* C4 (part): the throttle alone never withholds a broadcast: a handler
\* that has not met a store failure has issued one code_change broadcast
\* for every code_change it received, the one being persisted excepted.
C4_ThrottleNeverGates ==
    \A c \in Conns :
        pc[c] \notin {"exc_other", "rm_exc", "exit"} =>
            stats[c].codeBc = stats[c].codeRecv - (IF pc[c] = "upd_code" THEN 1 ELSE 0)

\* C4: every code_change a handler received has produced exactly one
\* code_change broadcast once the handler is past the persistence step,
\* whether the durable write was performed or skipped.
C4_EveryCodeChangeBroadcast ==
    \A c \in Conns :
        pc[c] # "upd_code" => stats[c].codeBc = stats[c].codeRecv

\* C5: every language_change a handler received has triggered an
\* update_space_language call, whatever the last-write time of the space
\* (the throttle never skips it); the broadcast of a language_change is
\* issued only after its call has returned; and a language_change that is
\* being broadcast or has been delivered is the language the store holds.
C5_LanguageAlwaysPersisted ==
    /\ \A c \in Conns :
          /\ stats[c].langUpd = stats[c].langRecv
          /\ stats[c].langBc <= stats[c].langUpd - (IF pc[c] = "upd_lang" THEN 1 ELSE 0)
          /\ bcMsg[c].type = "language_change" =>
                /\ "update_space_language" \in dbCalls[c]
                /\ db[space[c]].language = bcMsg[c].val
    /\ \A x \in Conns : \A m \in DOMAIN inbox[x] :
          m.type = "language_change" =>
                /\ "update_space_language" \in dbCalls[ConnOf(m.from)]
                /\ db[space[x]].language = m.val

\* C5 witness: a language_change that arrived inside the throttle window
\* of its space (a code write was recorded less than Throttle ago) has
\* been persisted and is being broadcast.
C5_Witness ==
    \E c \in Conns :
        /\ pc[c] = "bc"
        /\ bcMsg[c].type = "language_change"
        /\ space[c] \in DOMAIN last_db_write
        /\ ~WriteDue(clock, last_db_write[space[c]])
        /\ stats[c].langUpd = 1
        /\ db[space[c]].language = "js"

\* C6 (part): a disconnect call for a websocket that is no longer
\* registered changes neither the member sets nor the participant-id map,
\* be it the handler's own call or the one of a broadcast's cleanup.
C6_SecondCallNoOp ==
    \A c \in Conns :
        /\ (pc[c] \in {"exc_wsd", "exc_other"} /\ c \notin DOMAIN user_ids) =>
              /\ DiscardConn(active_connections, c, space[c]) = active_connections
              /\ PopUser(user_ids, c) = user_ids
        /\ pc[c] = "bc_clean" =>
              \A d \in bcDead[c] : d \notin DOMAIN user_ids =>
                  /\ DiscardConn(active_connections, d, space[c]) = active_connections
                  /\ PopUser(user_ids, d) = user_ids

\* C6 (part): no handler issues more than one user_leave broadcast.
C6_NeverTwoLeaves == \A c \in Conns : stats[c].leaveBc <= 1

\* C6: disconnect is idempotent: a second call for the same websocket
\* leaves the registry unchanged, and for a participant that had joined
\* (its init was sent) and whose handler made the second call, exactly one
\* user_leave broadcast has been issued when the handler ends.
C6_DisconnectIdempotent ==
    /\ C6_SecondCallNoOp
    /\ \A c \in Conns :
          (pc[c] = "exit" /\ stats[c].init = 1 /\ stats[c].again = 1) =>
              stats[c].leaveBc = 1

Rejected == {c \in Conns : space[c] # None /\ space[c] \notin Existing}

\* C7 (as stated): a connection opened against a space that does not exist
\* is closed with code 4004, is never in a member set or in the
\* participant-id map, issues no broadcast, and causes no call of the
\* durable store at all.
C7_NoStoreCallAtAll ==
    \A c \in Rejected :
        /\ \A s \in Spaces : c \notin Members(s)
        /\ c \notin DOMAIN user_ids
        /\ bcMsg[c] = NoBroadcast
        /\ pc[c] \in {"exit", "done"} => closeCode[c] = CloseNotFound
        /\ dbCalls[c] = {}

\* C7 (amended): a connection opened against a space that does not exist
\* is closed with code 4004 without being admitted: it is never in a member
\* set or in the participant-id map, receives nothing, issues no broadcast,
\* and the only call of the durable store it causes is the get_space lookup
\* that finds the space missing; the store is left unchanged.
C7_RejectedUnadmitted ==
    \A c \in Rejected :
        /\ pc[c] \in {"closing", "exit", "done"}
        /\ \A s \in Spaces : c \notin Members(s)
        /\ c \notin DOMAIN user_ids
        /\ bcMsg[c] = NoBroadcast
        /\ inbox[c] = EmptyDict
        /\ pc[c] \in {"exit", "done"} => closeCode[c] = CloseNotFound
        /\ dbCalls[c] = {"get_space"}
        /\ db[space[c]] = NoDoc

\* C7 witness: a connection to the missing space has been turned away with
\* code 4004 while another connection is a member of an existing space.
C7_Witness ==
    /\ pc["w2"] = "done"
    /\ space["w2"] = "nope"
    /\ closeCode["w2"] = CloseNotFound
    /\ "w1" \in Members("s1")

\* The connections whose handler task for space s has begun and not ended.
Attached(s) == {c \in Conns : space[c] = s /\ pc[c] \notin {"idle", "done"}}

\* C8: the registry holds state for a space only while a connection is
\* attached to it: a member-set entry exists exactly while the set has a
\* member, an open connection in its message loop has a member-set entry,
\* and a last-write time is held only for a space that some connection's
\* handler is still serving.
C8_StateIffAttached ==
    \A s \in Spaces :
        /\ s \in DOMAIN active_connections <=> Members(s) # {}
        /\ (\E c \in Attached(s) : pc[c] = "recv" /\ alive[c]) =>
              s \in DOMAIN active_connections
        /\ s \in DOMAIN last_db_write => Attached(s) # {}

\* C8 (part): a member-set entry exists only while it has a member.
C8_NoEmptyMemberSet ==
    \A s \in DOMAIN active_connections : active_connections[s] # {}

Inits(c) == {m \in DOMAIN inbox[c] : m.type = "init"}
JoinsOf(c, x) == {m \in DOMAIN inbox[x] : m.type = "user_join" /\ m.from = UserIdOf[c]}

\* C9 (part): a connection never finds its own user_join in its inbox,
\* and no connection is sent two init messages or two user_join messages
\* of the same participant.
C9_NoOwnJoinNoDuplicate ==
    \A c \in Conns :
        /\ JoinsOf(c, c) = {}
        /\ \A m \in Inits(c) : inbox[c][m] = 1 /\ Inits(c) = {m}
        /\ \A x \in Conns : \A m \in JoinsOf(c, x) :
              inbox[x][m] = 1 /\ JoinsOf(c, x) = {m}

\* C9 (part): when the pass that announces the join of connection c is
\* over, its user_join is in the inbox of every other connection that was
\* a member when the pass began, still is one and is still open.
C9_JoinReachesAll ==
    \A c \in Conns :
        (bcMsg[c].type = "user_join" /\ pc[c] \in PassOver) =>
            \A x \in bcOrig[c] \ {c} :
                (x \in Members(space[c]) /\ alive[x]) =>
                    bcMsg[c] \in DOMAIN inbox[x]

\* C9: a connection P that has joined and waits in its message loop was
\* sent exactly one init; every user_join of P that another connection was
\* sent carries P's id and the active-user count of P's init; every other
\* member present when P's user_join pass began and still attached and open
\* when it is over was sent it; and P was not sent its own user_join.
C9_JoinAnnounced ==
    /\ C9_NoOwnJoinNoDuplicate
    /\ \A c \in Conns :
          (pc[c] = "recv" /\ alive[c]) =>
              /\ Cardinality(Inits(c)) = 1
              /\ \A x \in Conns : \A j \in JoinsOf(c, x) : \A i \in Inits(c) :
                    j.val = i.val
    /\ C9_JoinReachesAll

\* C10 (part): when the handler of a connection ends, the connection is in
\* no member set, provided its registration did not fail.
C10_RemovedAtExit ==
    \A c \in Conns :
        (pc[c] = "exit" /\ stats[c].init = 1) =>
            /\ \A s \in Spaces : c \notin Members(s)
            /\ c \notin DOMAIN user_ids

\* C10: when the handler of a connection that had joined (its init was
\* sent) ends, whatever ended it, the connection has been removed from its
\* member set and, if members remain, exactly one user_leave broadcast
\* carrying the count after the removal has been issued for it.
C10_LeaveAnnouncedOnce ==
    /\ C10_RemovedAtExit
    /\ \A c \in Conns :
          (pc[c] = "exit" /\ stats[c].init = 1 /\ Members(space[c]) # {}) =>
              stats[c].leaveBc = 1
    /\ \A c \in Conns :
          (bcMsg[c].type = "user_leave" /\ pc[c] = "bc_start") =>
              bcMsg[c].val = GetActiveUsers(active_connections, space[c])

\* The broadcast call of task c has had a send fail: a dead connection
\* waits for cleanup or is being cleaned up.
SendFailed(c) == bcMsg[c] # NoBroadcast /\ (bcDead[c] # {} \/ dying[c] # None)

\* C11 (part): a send that fails does not stop the pass by itself: when
\* the pass is over and the member set is the one it began with, every
\* member but the excluded one has been tried.
C11_FailureDoesNotStopPass ==
    \A c \in Conns :
        (SendFailed(c) /\ pc[c] \in {"bc_clean", "bc_rm"}
            /\ IterSet(c) = bcOrig[c]) =>
                bcOrig[c] \ {bcExclude[c]} \subseteq bcVisited[c]

\* C11 (part): the cleanup of dead connections at the end of a pass raises
\* nothing: a task is never past a remove_user_from_space call of its
\* broadcast that failed.
C11_CleanupNeverRaises ==
    \A c \in Conns : dying[c] # None => pc[c] = "bc_rm"

\* C11: when a send of a broadcast call fails, the pass still tries every
\* other member that is not excluded, no exception leaves the call, and the
\* sender's handler does not end up in an except clause.
C11_BroadcastIsolated ==
    \A c \in Conns :
        SendFailed(c) =>
            /\ pc[c] \in {"bc", "bc_clean", "bc_rm"}
            /\ pc[c] \in {"bc_clean", "bc_rm"} =>
                  \A x \in bcOrig[c] \ {bcExclude[c]} :
                      x \in bcVisited[c] \/ x \notin Members(space[c])

Persisted == {"code_change", "language_change"}

\* C12: a durable write that fails stays with that call: once the
\* persistence step of a code_change or language_change is over, whether
\* the write returned, raised or was skipped, the handler has called
\* broadcast with that change, and it has not left the message loop for an
\* except clause without doing so.
C12_WriteFailureScoped ==
    \A c \in Conns :
        (msg[c].type \in Persisted /\ pc[c] \notin {"upd_code", "upd_lang"}) =>
            bcMsg[c] = Message(msg[c].type, UserIdOf[c], msg[c].val)

Ended == {"exit", "done"}

\* C13: when the handler task of a connection ends, on whatever path, its
\* websocket is in no member set and not in the participant-id map.
C13_CleanupOnEveryPath ==
    \A c \in Conns :
        pc[c] \in Ended =>
            /\ \A s \in Spaces : c \notin Members(s)
            /\ c \notin DOMAIN user_ids

\* C14: a frame that decodes to an object whose type is none of
\* code_change, language_change and cursor_move (a missing type included)
\* is a no-op: the step that takes
\* it leaves the handler in its message loop and changes neither the
\* registry, the last-write times, the store, any inbox, any broadcast in
\* progress, nor the record of store calls.
C14_UnknownTypeNoOp ==
    [][\A c \in Conns :
          stats'[c].skipped > stats[c].skipped =>
              /\ pc[c] = "recv" /\ pc'[c] = "recv"
              /\ running' = None
              /\ UNCHANGED <<active_connections, user_ids, last_db_write, db,
                             inbox, alive, bcMsg, bcExclude, bcOrig, bcVisited,
                             bcDead, bcRet, dying, closeCode, dbCalls,
                             codeWrites, latest>>]_vars

\* C14 witness: a member of a space with another member has taken a frame
\* of no recognised type and waits in its message loop.
C14_Witness ==
    \E c \in Conns :
        /\ stats[c].skipped >= 1
        /\ pc[c] = "recv"
        /\ c \in Members(space[c])
        /\ Cardinality(Members(space[c])) = 2

\* C15 (part): a pass during which the member set never differs from the
\* one it began with, and no send fails, raises nothing.
C15_QuietPassReturns ==
    [][\A c \in Conns :
          (pc[c] = "bc" /\ pc'[c] \in {"exc_other", "exit"}) =>
              IterSet(c) # bcOrig[c]]_vars

\* C15: a broadcast call during which other connections join or leave the
\* space does not break: with no send failed, no exception leaves the call,
\* and when the pass is over every member that was present when it began,
\* is not excluded, and is still attached and open has been sent the
\* message.
C15_PassSurvivesMutation ==
    \A c \in Conns :
        (bcMsg[c] # NoBroadcast /\ ~SendFailed(c)) =>
            /\ pc[c] \notin {"exc_other", "rm_exc", "exit"}
            /\ pc[c] = "bc_clean" =>
                  \A x \in bcOrig[c] \ {bcExclude[c]} :
                      (x \in Members(space[c]) /\ alive[x]) =>
                          bcMsg[c] \in DOMAIN inbox[x]

\* C16: a slow member does not hold a broadcast up for ever: a task that
\* waits in a send to a member whose client does not read gets past that
\* send (the send is given up after a bounded time), and every member the
\* pass had not reached yet is reached.
C16_SlowMemberDoesNotBlock ==
    \A c \in Conns : \A x \in Conns :
        (pc[c] = "bc_wait" /\ x \in bcOrig[c] \ bcVisited[c])
            ~> (pc[c] # "bc_wait" /\ x \in bcVisited[c])

\* C17: the router does not reorder the messages of one sender: a relayed
\* message of connection c reaches a member only in the broadcast of the
\* frame c's handler is working on, and the handler takes up its next
\* frame only when no broadcast of its own is under way; so every delivery
\* of an earlier message precedes every delivery of a later one.
C17_SenderOrderKept ==
    [][\A c \in Conns :
          /\ \A x \in Conns : \A m \in DOMAIN inbox'[x] :
                ( /\ m.type \in Relayed
                  /\ m.from = UserIdOf[c]
                  /\ (m \in DOMAIN inbox[x] => inbox'[x][m] > inbox[x][m]) ) =>
                    /\ pc[c] = "bc"
                    /\ bcMsg[c] = m
                    /\ msg[c].type = m.type /\ msg[c].val = m.val
          /\ (msg'[c] # msg[c] /\ msg'[c] # NoMsg) =>
                (pc[c] = "recv" /\ bcMsg[c] = NoBroadcast)]_vars

\* A member holds two different messages of one sender.
C17_Witness ==
    \E c \in Conns : \E x \in Conns \ {c} :
        \E m1 \in DOMAIN inbox[x] : \E m2 \in DOMAIN inbox[x] :
            /\ m1.type \in Relayed /\ m2.type \in Relayed
            /\ m1.from = UserIdOf[c] /\ m2.from = UserIdOf[c]
            /\ m1.type # m2.type

\* C18: the init sent to a joining connection carries the session's
\* current state.  Stated for the case most favourable to the code: when
\* init is sent, no other handler is between a receive and the end of its
\* broadcast, and the store still holds what get_space returned; then
\* init's code is the text of the last code_change received from a member
\* (the creation-time text if there was none) and its language the last
\* language_change.
Quiet(c) == \A d \in Conns \ {c} : pc[d] \in {"idle", "recv", "done"}

C18_InitCarriesLatest ==
    [][\A c \in Conns :
          ( /\ Quiet(c)
            /\ space[c] \in Existing
            /\ snap[c].code = db[space[c]].code
            /\ snap[c].language = db[space[c]].language ) =>
              \A m \in Inits(c)' \ Inits(c) :
                  /\ m.code = latest[space[c]].code
                  /\ m.language = latest[space[c]].language]_vars

\* C19: init is the first message an admitted connection receives: a
\* connection that holds a broadcast message of any kind has been sent its
\* own init.
C19_InitFirst ==
    \A x \in Conns :
        (\E m \in DOMAIN inbox[x] : m.type # "init") => Inits(x) # {}

\* C20: only registered members originate traffic: at every step that
\* writes a connection's code_change or language_change to the store, and
\* at every step that delivers its code_change, language_change or
\* cursor_move to a member, the originating connection is in the member
\* set of its space.
C20_OriginatorIsMember ==
    [][\A c \in Conns :
          ( \/ pc[c] \in {"upd_code", "upd_lang"} /\ pc'[c] = "bc_start"
            \/ /\ pc[c] = "bc"
               /\ bcMsg[c].type \in Relayed
               /\ \E x \in Conns :
                     /\ bcMsg[c] \in DOMAIN inbox'[x]
                     /\ bcMsg[c] \in DOMAIN inbox[x] =>
                           inbox'[x][bcMsg[c]] > inbox[x][bcMsg[c]] ) =>
              c \in Members(space[c])]_vars

====
